---- MODULE Spec2Model ----
(***************************************************************************)
(* Quadtree image compression (quad_tree_compression.py): the node tree,   *)
(* the greedy add_detail loop over the detail-ordered list `areas`, the    *)
(* binary codec and the reconstruction of a tree from a blob.              *)
(*                                                                         *)
(* A tree is a function from paths to nodes.  The path of the root is <<>>;*)
(* the path of a child is its parent's path followed by 1 (bottom left),   *)
(* 2 (bottom right), 3 (top left) or 4 (top right).  Floating point values *)
(* (the detail, the thresholds) are fixed-point integers: the real value   *)
(* times FixedPoint, rounded down.                                         *)
(***************************************************************************)
EXTENDS Integers, Sequences, FiniteSets, TLC

\* Bounds of the model.
MaxPixels == 9
MaxLit == 2
MaxSteps == 2
FixedPoint == 8
MaxFlags == 5
MaxColors == 4
MaxHeaderDim == 2
MaxBits == 9

VARIABLES image, nan_cast, tree, areas, pc, i, max_iterations,
          detail_error_threshold, drawn, blob, decoded, recon, bitset_io

vars == <<image, nan_cast, tree, areas, pc, i, max_iterations,
          detail_error_threshold, drawn, blob, decoded, recon, bitset_io>>

compressor == <<image, nan_cast, tree, areas>>
call == <<pc, i, max_iterations, detail_error_threshold>>

\* Python's None (a colour, a pixel view, a result that is absent).
None == <<>>

\* The detail of an empty region: np.std of no values is nan.
NaN == -1

\* float("inf") as a threshold: above every detail the bounds allow.
PosInf == 2 ^ 30

Min(a, b) == IF a < b THEN a ELSE b

Reverse(s) == [k \in 1..Len(s) |-> s[Len(s) + 1 - k]]

RECURSIVE SumOver(_, _)
SumOver(S, f) ==
    IF S = {} THEN 0
    ELSE LET e == CHOOSE e \in S : TRUE IN f[e] + SumOver(S \ {e}, f)

(***************************************************************************)
(* Source images.  A pixel buffer of shape (height, width, 3) is a         *)
(* function from <<y, x>> to <<r, g, b>>.                                  *)
(***************************************************************************)
Background == <<10, 20, 30>>
Dim == <<14, 20, 30>>
Bright == <<250, 0, 31>>
Black == <<0, 0, 0>>

Positions(w, h) == (0..(h - 1)) \X (0..(w - 1))

\* The pixel that stands out at position p: a faint one or a strong one.
LitPixel(p) == IF (p[1] + p[2]) % 2 = 0 THEN Dim ELSE Bright

\* The images of at most MaxPixels pixels, an empty width or height
\* included, in which at most MaxLit pixels stand out from the background.
Shapes ==
    { sh \in (0..MaxPixels) \X (0..MaxPixels) : sh[1] * sh[2] <= MaxPixels }

Images ==
    UNION {
        { [width |-> sh[1], height |-> sh[2],
           data |-> [p \in Positions(sh[1], sh[2]) |->
                        IF p \in lit THEN LitPixel(p) ELSE Background]]
          : lit \in { T \in SUBSET Positions(sh[1], sh[2]) : Cardinality(T) <= MaxLit } }
        : sh \in Shapes }

(***************************************************************************)
(* Pixel views.  A view is <<x, y, w, h>>: the slice                       *)
(* source[y : y + h, x : x + w] of the source buffer.                      *)
(***************************************************************************)
ViewPositions(view) ==
    { p \in DOMAIN image.data : /\ view[2] <= p[1] /\ p[1] < view[2] + view[4]
                                /\ view[1] <= p[2] /\ p[2] < view[1] + view[3] }

\* view[start_y : start_y + height, start_x : start_x + width]: numpy clamps
\* the bounds of a slice to the shape of the array.
Slice(view, start_x, start_y, width, height) ==
    LET x0 == Min(start_x, view[3])
        x1 == Min(start_x + width, view[3])
        y0 == Min(start_y, view[4])
        y1 == Min(start_y + height, view[4])
    IN  <<view[1] + x0, view[2] + y0, x1 - x0, y1 - y0>>

RECURSIVE ISqrtSearch(_, _, _)
ISqrtSearch(x, lo, hi) ==
    IF lo >= hi THEN lo
    ELSE LET mid == (lo + hi + 1) \div 2
         IN  IF mid * mid <= x THEN ISqrtSearch(x, mid, hi)
                               ELSE ISqrtSearch(x, lo, mid - 1)

\* The integer part of the square root.
ISqrt(x) == ISqrtSearch(x, 0, 46340)

ChannelSum(view, c) ==
    SumOver(ViewPositions(view), [p \in ViewPositions(view) |-> image.data[p][c]])

ChannelSumSq(view, c) ==
    SumOver(ViewPositions(view),
            [p \in ViewPositions(view) |-> image.data[p][c] * image.data[p][c]])

\* np.std(image_data, axis=(0, 1))[c], in fixed point: the square root of
\* the variance sum(x^2)/n - (sum(x)/n)^2.
Std(view, c) ==
    LET n == view[3] * view[4]
    IN  ISqrt((FixedPoint * FixedPoint
                 * (n * ChannelSumSq(view, c) - ChannelSum(view, c) * ChannelSum(view, c)))
              \div (n * n))

\* np.sum(np.std(image_data, axis=(0, 1))) * image_data.size; image_data.size
\* counts the three channels of every pixel.
Detail(view) ==
    IF view[3] * view[4] = 0 THEN NaN
    ELSE (Std(view, 1) + Std(view, 2) + Std(view, 3)) * (view[3] * view[4] * 3)

\* A mean that divides by image_data.size, the number of channel values,
\* instead of by the number of pixels.
MeanBySize(view, c) ==
    IF view[3] * view[4] = 0 THEN nan_cast
    ELSE ChannelSum(view, c) \div (view[3] * view[4] * 3)

\* np.mean(image_data, axis=(0, 1)).astype(np.uint8)[c]: the mean, truncated.
\* The mean of an empty region is nan, and what the cast of nan to uint8
\* yields depends on the platform.
Mean(view, c) ==
    IF view[3] * view[4] = 0 THEN nan_cast
    ELSE ChannelSum(view, c) \div (view[3] * view[4])

(***************************************************************************)
(* Nodes.                                                                  *)
(***************************************************************************)
\* CompressNode.__init__: the size is the shape of the view.
CompressNode(position, view) ==
    [position |-> position,
     size |-> <<view[3], view[4]>>,
     color |-> <<Mean(view, 1), Mean(view, 2), Mean(view, 3)>>,
     is_subdivided |-> FALSE,
     image_data |-> view,
     detail |-> Detail(view)]

\* A subdivide() that lets the right-hand children start at the split but
\* gives them the width of the left-hand ones.
ChildRectsEqualHalves(position, size) ==
    LET split_width == size[1] \div 2
        split_height == size[2] \div 2
    IN  << <<position, <<split_width, split_height>> >>,
           << <<position[1] + split_width, position[2]>>,
              <<split_width, split_height>> >>,
           << <<position[1], position[2] + split_height>>,
              <<split_width, size[2] - split_height>> >>,
           << <<position[1] + split_width, position[2] + split_height>>,
              <<split_width, size[2] - split_height>> >> >>

\* QuadTreeNode.subdivide: the <<position, size>> of the four children, in
\* the order bottom left, bottom right, top left, top right.
ChildRects(position, size) ==
    LET split_width == size[1] \div 2
        split_height == size[2] \div 2
    IN  << <<position, <<split_width, split_height>> >>,
           << <<position[1] + split_width, position[2]>>,
              <<size[1] - split_width, split_height>> >>,
           << <<position[1], position[2] + split_height>>,
              <<split_width, size[2] - split_height>> >>,
           << <<position[1] + split_width, position[2] + split_height>>,
              <<size[1] - split_width, size[2] - split_height>> >> >>

\* A subdivide() without the test of the width and the height.
CanSubdivideAnySize(node) == ~node.is_subdivided

\* QuadTreeNode.subdivide: whether the node is split (neither of the two
\* early returns is taken).
CanSubdivide(node) ==
    /\ ~node.is_subdivided
    /\ ~(node.size[1] <= 1 \/ node.size[2] <= 1)

\* CompressNode._create_child_node
CreateCompressChild(node, position, size) ==
    LET start_x == position[1] - node.position[1]
        start_y == position[2] - node.position[2]
    IN  CompressNode(position,
                     Slice(node.image_data, start_x, start_y, size[1], size[2]))

\* A subdivide() that returns the node itself when it cannot split it.
SubdivideResultOrSelf(t, p) ==
    IF CanSubdivide(t[p]) THEN [k \in 1..4 |-> Append(p, k)] ELSE <<p>>

\* The nodes CompressNode.subdivide returns: the paths of the new children,
\* or nothing.
SubdivideResult(t, p) ==
    IF CanSubdivide(t[p]) THEN [k \in 1..4 |-> Append(p, k)] ELSE <<>>

\* A subdivide() that does not release the view of the node.
CompressSubdivideKeepView(t, p) ==
    LET node == t[p]
        rects == ChildRects(node.position, node.size)
    IN  IF CanSubdivide(node)
        THEN [q \in DOMAIN t \cup {Append(p, k) : k \in 1..4} |->
                IF q = p THEN [node EXCEPT !.is_subdivided = TRUE]
                ELSE IF q \in DOMAIN t THEN t[q]
                ELSE LET r == rects[q[Len(q)]]
                     IN  CreateCompressChild(node, r[1], r[2])]
        ELSE t

\* CompressNode.subdivide: the tree after it.
CompressSubdivide(t, p) ==
    LET node == t[p]
        rects == ChildRects(node.position, node.size)
    IN  IF CanSubdivide(node)
        THEN [q \in DOMAIN t \cup {Append(p, k) : k \in 1..4} |->
                IF q = p THEN [node EXCEPT !.is_subdivided = TRUE, !.image_data = None]
                ELSE IF q \in DOMAIN t THEN t[q]
                ELSE LET r == rects[q[Len(q)]]
                     IN  CreateCompressChild(node, r[1], r[2])]
        ELSE [t EXCEPT ![p].image_data = None]

Leaves(t) == { p \in DOMAIN t : ~t[p].is_subdivided }

(***************************************************************************)
(* areas: SortedListWithKey(key=lambda node: node.detail), a sequence of   *)
(* paths in ascending order of detail.                                     *)
(***************************************************************************)
\* An add() that appends without looking at the key.
SortedAddAtEnd(list, p, t) == Append(list, p)

\* SortedListWithKey.add: after the elements whose key is not greater.
SortedAdd(list, p, t) ==
    LET at == Cardinality({ k \in 1..Len(list) : t[list[k]].detail <= t[p].detail })
    IN  SubSeq(list, 1, at) \o <<p>> \o SubSeq(list, at + 1, Len(list))

\* A pop() that reads the last element and leaves it in the list.
PopKeep(list) == list

\* SortedListWithKey.pop(): the list without its last element.
Pop(list) == SubSeq(list, 1, Len(list) - 1)

\* A comparison that lets a detail equal to the threshold pass.
DetailGreaterOrEqual(detail, threshold) == detail # NaN /\ detail >= threshold

\* node.detail > detail_error_threshold; a comparison with nan is false.
DetailGreater(detail, threshold) == detail # NaN /\ detail > threshold

\* The inner loop of add_detail: the children above the threshold are added.
RECURSIVE AddChildren(_, _, _, _)
AddChildren(list, nodes, t, threshold) ==
    IF nodes = <<>> THEN list
    ELSE AddChildren(
            IF DetailGreater(t[Head(nodes)].detail, threshold)
            THEN SortedAdd(list, Head(nodes), t) ELSE list,
            Tail(nodes), t, threshold)

\* The thresholds a call passes: a negative one, 0, the default 100 and
\* infinity.
Thresholds == {0 - FixedPoint, 0, 100 * FixedPoint, PosInf}

(***************************************************************************)
(* Drawing and extraction.                                                 *)
(***************************************************************************)
\* np.zeros(shape, dtype=np.uint8)
Zeros(width, height) == [q \in Positions(width, height) |-> Black]

\* QuadTreeNode.draw_self: image_data[start_y: end_y, start_x: end_x] = color;
\* a node without a colour paints nothing.
DrawSelf(node, image_data) ==
    IF node.color = None THEN image_data
    ELSE [q \in DOMAIN image_data |->
            IF /\ node.position[2] <= q[1] /\ q[1] < node.position[2] + node.size[2]
               /\ node.position[1] <= q[2] /\ q[2] < node.position[1] + node.size[1]
            THEN node.color ELSE image_data[q]]

\* QuadTreeNode.draw: the four children in turn, or the node itself.
RECURSIVE DrawNode(_, _, _)
DrawNode(t, p, image_data) ==
    IF t[p].is_subdivided
    THEN DrawNode(t, Append(p, 4),
           DrawNode(t, Append(p, 3),
             DrawNode(t, Append(p, 2),
               DrawNode(t, Append(p, 1), image_data))))
    ELSE DrawSelf(t[p], image_data)

\* ImageCompressor.draw (and the drawing of reconstruct_image_data): a new
\* buffer of zeros, painted by the tree.
DrawTree(t, width, height) == DrawNode(t, <<>>, Zeros(width, height))

\* CompressNode.extract_data: the flags and the colours appended in
\* pre-order to the two lists.
\* A traversal that visits the top children before the bottom ones.
RECURSIVE ExtractNodeTopFirst(_, _, _)
ExtractNodeTopFirst(t, p, lists) ==
    LET flagged == [lists EXCEPT !.subdivided_flags = Append(@, t[p].is_subdivided)]
    IN  IF t[p].is_subdivided
        THEN ExtractNodeTopFirst(t, Append(p, 2),
               ExtractNodeTopFirst(t, Append(p, 1),
                 ExtractNodeTopFirst(t, Append(p, 4),
                   ExtractNodeTopFirst(t, Append(p, 3), flagged))))
        ELSE [flagged EXCEPT !.colors = Append(@, t[p].color)]

RECURSIVE ExtractNode(_, _, _)
ExtractNode(t, p, lists) ==
    LET flagged == [lists EXCEPT !.subdivided_flags = Append(@, t[p].is_subdivided)]
    IN  IF t[p].is_subdivided
        THEN ExtractNode(t, Append(p, 4),
               ExtractNode(t, Append(p, 3),
                 ExtractNode(t, Append(p, 2),
                   ExtractNode(t, Append(p, 1), flagged))))
        ELSE [flagged EXCEPT !.colors = Append(@, t[p].color)]

\* ImageCompressor.extract_data
ExtractData(t) == ExtractNode(t, <<>>, [subdivided_flags |-> <<>>, colors |-> <<>>])

(***************************************************************************)
(* The binary codec.  A byte string is a sequence of numbers in 0..255; a  *)
(* BytesIO stream is a byte string and a position in it.                   *)
(***************************************************************************)
\* number.to_bytes(4, byteorder="little", signed=False)
EncodeUint32(number) ==
    <<number % 256, (number \div 256) % 256,
      (number \div 65536) % 256, (number \div 16777216) % 256>>

\* number.to_bytes(1, byteorder="little", signed=False)
EncodeUint8(number) == <<number>>

\* int.from_bytes(data, byteorder="little", signed=False), for data of any
\* length: no bytes give 0.
RECURSIVE FromBytes(_)
FromBytes(data) ==
    IF data = <<>> THEN 0 ELSE Head(data) + 256 * FromBytes(Tail(data))

DecodeUint32(data) == FromBytes(data)

DecodeUint8(data) == FromBytes(data)

\* stream.read(n) at position pos: the bytes that are there, at most n.
ReadBytes(data, pos, n) == SubSeq(data, pos + 1, Min(pos + n, Len(data)))

\* The position of the stream after stream.read(n).
ReadPos(data, pos, n) == Min(pos + n, Len(data))

\* math.ceil(count / 8)
ByteCount(count) == (count + 7) \div 8

\* A packing that fills the byte from its most significant bit down.
RECURSIVE BitsetByteMsbFirst(_, _, _)
BitsetByteMsbFirst(boolean_flags, byte_index, bit_index) ==
    IF bit_index >= 8 THEN 0
    ELSE LET list_index == byte_index * 8 + bit_index
         IN  (IF list_index >= Len(boolean_flags) \/ ~boolean_flags[list_index + 1]
              THEN 0 ELSE 2 ^ (7 - bit_index))
             + BitsetByteMsbFirst(boolean_flags, byte_index, bit_index + 1)

\* The byte encode_bitset writes for byte_index: bit bit_index is flag
\* byte_index * 8 + bit_index.
RECURSIVE BitsetByte(_, _, _)
BitsetByte(boolean_flags, byte_index, bit_index) ==
    IF bit_index >= 8 THEN 0
    ELSE LET list_index == byte_index * 8 + bit_index
         IN  (IF list_index >= Len(boolean_flags) \/ ~boolean_flags[list_index + 1]
              THEN 0 ELSE 2 ^ bit_index)
             + BitsetByte(boolean_flags, byte_index, bit_index + 1)

\* encode_bitset: the bytes written to the stream.
RECURSIVE EncodeBitsetBytes(_, _)
EncodeBitsetBytes(boolean_flags, byte_index) ==
    IF byte_index >= ByteCount(Len(boolean_flags)) THEN <<>>
    ELSE EncodeUint8(BitsetByte(boolean_flags, byte_index, 0))
         \o EncodeBitsetBytes(boolean_flags, byte_index + 1)

EncodeBitset(boolean_flags) ==
    EncodeUint32(Len(boolean_flags)) \o EncodeBitsetBytes(boolean_flags, 0)

\* A test of the bits from the most significant one down.
BitSetMsbFirst(byte, bit_index) == (byte \div (2 ^ (7 - bit_index))) % 2 = 1

\* (byte & (1 << bit_index)) > 0
BitSet(byte, bit_index) == (byte \div (2 ^ bit_index)) % 2 = 1

\* decode_bitset at position pos of the stream: the flags and the position
\* after them.  Flag list_index is read from the byte byte_index that the
\* loop reads with its read(1) number byte_index.
DecodeBitset(data, pos) ==
    LET flag_count == DecodeUint32(ReadBytes(data, pos, 4))
        start == ReadPos(data, pos, 4)
        byte_count == ByteCount(flag_count)
    IN  [boolean_flags |->
            [k \in 1..flag_count |->
                LET list_index == k - 1
                    byte == DecodeUint8(ReadBytes(data, start + list_index \div 8, 1))
                IN  BitSet(byte, list_index % 8)],
         pos |-> ReadPos(data, start, byte_count)]

RECURSIVE EncodeColors(_)
EncodeColors(colors) ==
    IF colors = <<>> THEN <<>>
    ELSE EncodeUint8(Head(colors)[1]) \o EncodeUint8(Head(colors)[2])
         \o EncodeUint8(Head(colors)[3]) \o EncodeColors(Tail(colors))

\* lzma.compress and lzma.decompress, the lossless container of the library.
LzmaCompress(data) == [format |-> "xz", data |-> data]

LzmaDecompress(compressed) == compressed.data

\* encode_image_data
EncodeImageData(width, height, subdivided_flags, colors) ==
    LzmaCompress(EncodeUint32(width) \o EncodeUint32(height)
                 \o EncodeBitset(subdivided_flags) \o EncodeColors(colors))

\* sum(0 if flag else 1 for flag in subdivided_flags)
ColorCount(subdivided_flags) ==
    Cardinality({ k \in 1..Len(subdivided_flags) : ~subdivided_flags[k] })

\* decode_image_data: no read of it raises; a read at the end of the stream
\* yields no bytes, which decode to 0.
DecodeImageData(compressed) ==
    LET data == LzmaDecompress(compressed)
        width == DecodeUint32(ReadBytes(data, 0, 4))
        height == DecodeUint32(ReadBytes(data, ReadPos(data, 0, 4), 4))
        bitset == DecodeBitset(data, ReadPos(data, ReadPos(data, 0, 4), 4))
        color_count == ColorCount(bitset.boolean_flags)
    IN  [status |-> "ok",
         width |-> width,
         height |-> height,
         subdivided_flags |-> bitset.boolean_flags,
         colors |-> [k \in 1..color_count |->
                       [c \in 1..3 |->
                          DecodeUint8(ReadBytes(data, bitset.pos + 3 * (k - 1) + (c - 1), 1))]]]

(***************************************************************************)
(* Reconstruction.  The state of a construction is the nodes built so far, *)
(* the two stacks, and whether a pop() of an empty stack has raised.       *)
(***************************************************************************)
\* QuadTreeNode.__init__
QuadTreeNode(position, size) ==
    [position |-> position, size |-> size, color |-> None, is_subdivided |-> FALSE]

\* ReconstructNode.__init__ at path p, with subdivide() and its four
\* _create_child_node calls.
RECURSIVE ReconstructNode(_, _, _, _)
ReconstructNode(p, position, size, b) ==
    IF ~b.ok THEN b
    ELSE IF b.subdivided_flags = <<>> THEN [b EXCEPT !.ok = FALSE]
    ELSE
      LET node == QuadTreeNode(position, size)
          is_subdivided == b.subdivided_flags[Len(b.subdivided_flags)]
          popped == [b EXCEPT !.subdivided_flags = Pop(@)]
          rects == ChildRects(position, size)
      IN  IF is_subdivided
          THEN IF CanSubdivide(node)
               THEN ReconstructNode(Append(p, 4), rects[4][1], rects[4][2],
                      ReconstructNode(Append(p, 3), rects[3][1], rects[3][2],
                        ReconstructNode(Append(p, 2), rects[2][1], rects[2][2],
                          ReconstructNode(Append(p, 1), rects[1][1], rects[1][2],
                            [popped EXCEPT !.nodes =
                               @ @@ (p :> [node EXCEPT !.is_subdivided = TRUE])]))))
               ELSE [popped EXCEPT !.nodes = @ @@ (p :> node)]
          ELSE IF b.colors = <<>> THEN [b EXCEPT !.ok = FALSE]
               ELSE [popped EXCEPT
                       !.nodes = @ @@ (p :> [node EXCEPT !.color = b.colors[Len(b.colors)]]),
                       !.colors = Pop(@)]

\* The tree ReconstructNode((0, 0), (width, height), flags, colors) builds
\* from the two reversed lists, and its drawing on a buffer of zeros.
Reconstruct(width, height, reversed_flags, reversed_colors) ==
    LET b == ReconstructNode(<<>>, <<0, 0>>, <<width, height>>,
                [ok |-> TRUE, nodes |-> <<>>,
                 subdivided_flags |-> reversed_flags, colors |-> reversed_colors])
    IN  IF b.ok
        THEN [status |-> "ok", width |-> width, height |-> height, tree |-> b.nodes,
              image_data |-> DrawTree(b.nodes, width, height)]
        ELSE [status |-> "error"]

\* reconstruct_quadtree and reconstruct_image_data
ReconstructImageData(data) ==
    LET d == DecodeImageData(data)
    IN  Reconstruct(d.width, d.height, Reverse(d.subdivided_flags), Reverse(d.colors))

(***************************************************************************)
(* ImageCompressor                                                         *)
(***************************************************************************)
\* ImageCompressor.__init__
Construct(img, cast) ==
    /\ image = img
    /\ nan_cast = cast
    /\ tree = [p \in {<<>>} |-> CompressNode(<<0, 0>>, <<0, 0, img.width, img.height>>)]
    /\ areas = << <<>> >>

\* What the cast of nan to uint8 may yield.
NanCasts(img) == IF img.width * img.height = 0 THEN {0, 255} ELSE {0}

Init ==
    /\ \E img \in Images : \E cast \in NanCasts(img) : Construct(img, cast)
    /\ pc = "idle"
    /\ i = 0
    /\ max_iterations = 0
    /\ detail_error_threshold = 0
    /\ drawn = None
    /\ blob = None
    /\ decoded = None
    /\ recon = None
    /\ bitset_io = None

\* A call add_detail(max_iterations, detail_error_threshold) begins.  The
\* caller's earlier results of draw, encode and reconstruct are dropped.
AddDetail(steps, threshold) ==
    /\ pc = "idle"
    /\ pc' = "add_detail"
    /\ i' = 0
    /\ max_iterations' = steps
    /\ detail_error_threshold' = threshold
    /\ drawn' = None
    /\ blob' = None
    /\ recon' = None
    /\ UNCHANGED <<compressor, bitset_io, decoded>>

\* An iteration of a loop that runs while i <= max_iterations.
AddDetailStepInclusive ==
    /\ pc = "add_detail"
    /\ i <= max_iterations
    /\ areas # <<>>
    /\ LET node_with_most_detail == areas[Len(areas)]
           after == CompressSubdivide(tree, node_with_most_detail)
       IN  /\ tree' = after
           /\ areas' = AddChildren(Pop(areas),
                                   SubdivideResult(tree, node_with_most_detail),
                                   after, detail_error_threshold)
    /\ i' = i + 1
    /\ UNCHANGED <<image, nan_cast, bitset_io, pc, max_iterations, detail_error_threshold,
                   drawn, blob, decoded, recon>>

\* One iteration of the loop of add_detail.
AddDetailStep ==
    /\ pc = "add_detail"
    /\ i < max_iterations
    /\ areas # <<>>
    /\ LET node_with_most_detail == areas[Len(areas)]
           after == CompressSubdivide(tree, node_with_most_detail)
       IN  /\ tree' = after
           /\ areas' = AddChildren(Pop(areas),
                                   SubdivideResult(tree, node_with_most_detail),
                                   after, detail_error_threshold)
    /\ i' = i + 1
    /\ UNCHANGED <<image, nan_cast, bitset_io, pc, max_iterations, detail_error_threshold,
                   drawn, blob, decoded, recon>>

\* The loop of add_detail ends: the range is exhausted or areas is empty.
\* The locals of the call are gone with it.
AddDetailReturn ==
    /\ pc = "add_detail"
    /\ (i >= max_iterations \/ areas = <<>>)
    /\ pc' = "idle"
    /\ i' = 0
    /\ max_iterations' = 0
    /\ detail_error_threshold' = 0
    /\ UNCHANGED <<compressor, bitset_io, drawn, blob, decoded, recon>>

\* A draw() that finds the nodes to paint by emptying areas.
DrawConsumingAreas ==
    /\ pc = "idle"
    /\ drawn' = DrawTree(tree, image.width, image.height)
    /\ areas' = <<>>
    /\ UNCHANGED <<image, nan_cast, tree, bitset_io, call, blob, decoded, recon>>

\* ImageCompressor.draw
Draw ==
    /\ pc = "idle"
    /\ drawn' = DrawTree(tree, image.width, image.height)
    /\ UNCHANGED <<compressor, bitset_io, call, blob, decoded, recon>>

\* ImageCompressor.encode_to_binary
EncodeToBinary ==
    /\ pc = "idle"
    /\ LET lists == ExtractData(tree)
       IN  blob' = EncodeImageData(image.width, image.height,
                                   lists.subdivided_flags, lists.colors)
    /\ decoded' = None
    /\ recon' = None
    /\ UNCHANGED <<compressor, bitset_io, call, drawn>>

\* reconstruct_image_data(blob)
ReconstructFromBlob ==
    /\ pc = "idle"
    /\ blob # None
    /\ recon' = ReconstructImageData(blob)
    /\ UNCHANGED <<compressor, bitset_io, call, drawn, blob, decoded>>

Next ==
    \/ \E steps \in 0..MaxSteps : \E threshold \in Thresholds : AddDetail(steps, threshold)
    \/ AddDetailStep
    \/ AddDetailReturn
    \/ Draw
    \/ EncodeToBinary
    \/ ReconstructFromBlob

Spec == Init /\ [][Next]_vars

(***************************************************************************)
(* The decoder on its own: it is handed the blobs encode_image_data makes  *)
(* of any dimensions, flags and colours, such blobs cut short, and lists   *)
(* of flags and colours directly.                                          *)
(***************************************************************************)
Palette == <<Background, Dim, Bright, <<255, 255, 255>>>>

ColorStreams ==
    { [k \in 1..n |-> Palette[((k - 1) % Len(Palette)) + 1]] : n \in 0..MaxColors }

FlagStreams == UNION { [1..n -> BOOLEAN] : n \in 0..MaxFlags }

UniformImage(w, h) ==
    [width |-> w, height |-> h, data |-> [q \in Positions(w, h) |-> Background]]

InitDecode ==
    /\ Construct(UniformImage(2, 2), 0)
    /\ pc = "idle"
    /\ i = 0
    /\ max_iterations = 0
    /\ detail_error_threshold = 0
    /\ drawn = None
    /\ blob = None
    /\ decoded = None
    /\ recon = None
    /\ bitset_io = None

\* encode_image_data(width, height, subdivided_flags, colors), at the start
\* of a decoding session.
EncodeStream(width, height, subdivided_flags, colors) ==
    /\ blob = None
    /\ recon = None
    /\ blob' = EncodeImageData(width, height, subdivided_flags, colors)
    /\ decoded' = None
    /\ recon' = None
    /\ UNCHANGED <<compressor, bitset_io, call, drawn>>

\* The blob whose decompressed bytes are the first n of this one's.
Truncate(n) ==
    /\ blob # None
    /\ n < Len(LzmaDecompress(blob))
    /\ blob' = LzmaCompress(SubSeq(LzmaDecompress(blob), 1, n))
    /\ decoded' = None
    /\ recon' = None
    /\ UNCHANGED <<compressor, bitset_io, call, drawn>>

\* decode_image_data(blob)
DecodeBlob ==
    /\ blob # None
    /\ decoded' = DecodeImageData(blob)
    /\ UNCHANGED <<compressor, bitset_io, call, drawn, blob, recon>>

\* ReconstructNode((0, 0), (width, height), subdivided_flags, colors) and
\* its drawing, for lists that are already reversed, at the start of a
\* decoding session.
NewReconstructNode(width, height, subdivided_flags, colors) ==
    /\ blob = None
    /\ recon = None
    /\ recon' = Reconstruct(width, height, subdivided_flags, colors)
    /\ blob' = None
    /\ decoded' = None
    /\ UNCHANGED <<compressor, bitset_io, call, drawn>>

NextDecode ==
    \/ \E width \in 0..MaxHeaderDim, height \in 0..MaxHeaderDim :
       \E subdivided_flags \in FlagStreams, colors \in ColorStreams :
          \/ EncodeStream(width, height, subdivided_flags, colors)
          \/ NewReconstructNode(width, height, subdivided_flags, colors)
    \/ \E n \in 0..(8 + 4 + ByteCount(MaxFlags) + 3 * MaxColors) : Truncate(n)
    \/ DecodeBlob
    \/ ReconstructFromBlob

SpecDecode == InitDecode /\ [][NextDecode]_vars

(***************************************************************************)
(* The bitset codec on its own: a list of flags is written to an empty     *)
(* stream by encode_bitset, the stream is read back by decode_bitset, and  *)
(* in between the unused high bits of its last byte may be given any value.*)
(* bitset_io holds the list, the stream, and the list read back.           *)
(***************************************************************************)
BitLists == UNION { [1..n -> BOOLEAN] : n \in 0..MaxBits }

InitBitset ==
    /\ Construct(UniformImage(2, 2), 0)
    /\ pc = "idle"
    /\ i = 0
    /\ max_iterations = 0
    /\ detail_error_threshold = 0
    /\ drawn = None
    /\ blob = None
    /\ decoded = None
    /\ recon = None
    /\ \E boolean_flags \in BitLists :
          bitset_io = [boolean_flags |-> boolean_flags, stream |-> <<>>,
                       written |-> FALSE, padded |-> FALSE, result |-> None]

\* encode_bitset(boolean_flags, stream) on the empty stream.
EncodeBitsetCall ==
    /\ ~bitset_io.written
    /\ bitset_io' = [bitset_io EXCEPT !.stream = EncodeBitset(bitset_io.boolean_flags),
                                      !.written = TRUE]
    /\ UNCHANGED <<compressor, call, drawn, blob, decoded, recon>>

\* The stream whose last byte has the given value in the bits above the
\* last flag, for a count of flags that is not a multiple of 8.
SetPaddingBits(padding) ==
    LET flag_count == Len(bitset_io.boolean_flags)
        used == flag_count % 8
        last == Len(bitset_io.stream)
    IN  /\ bitset_io.written
        /\ ~bitset_io.padded
        /\ bitset_io.result = None
        /\ used # 0
        /\ padding < 2 ^ (8 - used)
        /\ bitset_io' = [bitset_io EXCEPT
                           !.stream[last] = (@ % (2 ^ used)) + padding * (2 ^ used),
                           !.padded = TRUE]
        /\ UNCHANGED <<compressor, call, drawn, blob, decoded, recon>>

\* decode_bitset(stream) with the stream at position 0.
DecodeBitsetCall ==
    /\ bitset_io.written
    /\ bitset_io.result = None
    /\ bitset_io' = [bitset_io EXCEPT !.result = DecodeBitset(bitset_io.stream, 0)]
    /\ UNCHANGED <<compressor, call, drawn, blob, decoded, recon>>

NextBitset ==
    \/ EncodeBitsetCall
    \/ \E padding \in 0..255 : SetPaddingBits(padding)
    \/ DecodeBitsetCall

SpecBitset == InitBitset /\ [][NextBitset]_vars

(***************************************************************************)
(* Notions the properties share.                                           *)
(***************************************************************************)
Root == <<>>

AreaSet(list) == { list[k] : k \in 1..Len(list) }

\* The pixel q = <<y, x>> lies in the rectangle of the node.
Covers(node, q) ==
    /\ node.position[2] <= q[1] /\ q[1] < node.position[2] + node.size[2]
    /\ node.position[1] <= q[2] /\ q[2] < node.position[1] + node.size[1]

Irreducible(node) == node.size[1] <= 1 \/ node.size[2] <= 1

\* The step from this state to the next is an iteration of add_detail's loop.
StepTaken == pc = "add_detail" /\ pc' = "add_detail" /\ i' = i + 1

\* An iteration of the loop is about to pop a node.
AboutToPop == pc = "add_detail" /\ i < max_iterations /\ areas # <<>>

Abs(x) == IF x < 0 THEN 0 - x ELSE x

\* The sum over the pixels and the channels of |source - drawing of t|:
\* benchmark.mean_average_error times the number of channel values, which is
\* the same for every drawing of one image.
SumAbsError(t) ==
    LET drawing == DrawTree(t, image.width, image.height)
    IN  SumOver(DOMAIN image.data,
                [q \in DOMAIN image.data |->
                    Abs(image.data[q][1] - drawing[q][1])
                    + Abs(image.data[q][2] - drawing[q][2])
                    + Abs(image.data[q][3] - drawing[q][3])])

\* The nodes the step from this state to the next has created.
NewNodes == DOMAIN tree' \ DOMAIN tree

(***************************************************************************)
(* C1                                                                      *)
(***************************************************************************)
\* C1: whenever a blob of the compressor has been reconstructed, the
\* reconstruction succeeded, has the width and the height of the source, is
\* pixel for pixel the drawing of the compressor's tree, and has the same
\* leaves with the same rectangles and colours.
C1_RoundTrip ==
    recon # None =>
        /\ recon.status = "ok"
        /\ recon.width = image.width
        /\ recon.height = image.height
        /\ recon.image_data = DrawTree(tree, image.width, image.height)
        /\ Leaves(recon.tree) = Leaves(tree)
        /\ \A p \in Leaves(tree) :
              /\ recon.tree[p].position = tree[p].position
              /\ recon.tree[p].size = tree[p].size
              /\ recon.tree[p].color = tree[p].color

\* A tree two levels deep over an image that is not uniform was encoded and
\* reconstructed.
C1_Witness ==
    /\ recon # None
    /\ \E p \in DOMAIN tree : p # Root /\ tree[p].is_subdivided
    /\ tree[Root].detail > 0

(***************************************************************************)
(* C2                                                                      *)
(***************************************************************************)
\* C2: the nodes held in areas are exactly the current leaves of the tree,
\* each once.
C2_AreasIsLeafSet ==
    /\ AreaSet(areas) = Leaves(tree)
    /\ Cardinality(AreaSet(areas)) = Len(areas)

\* C2 (amended): every node held in areas is a current leaf and is held
\* once, so no internal node is in areas; a leaf may be missing from areas,
\* and a root that is missing has been popped.
C2_AreasAreLeaves ==
    /\ AreaSet(areas) \subseteq Leaves(tree)
    /\ Cardinality(AreaSet(areas)) = Len(areas)
    /\ (Root \in Leaves(tree) /\ Root \notin AreaSet(areas)
          => tree[Root].image_data = None)

\* Some leaves are held in areas and another leaf is not, below a
\* subdivided root.
C2_Witness ==
    /\ tree[Root].is_subdivided
    /\ areas # <<>>
    /\ \E p \in Leaves(tree) : p \notin AreaSet(areas)

(***************************************************************************)
(* C3                                                                      *)
(***************************************************************************)
\* C3: the node an iteration is about to pop has a detail greater than or
\* equal to that of every other current leaf, held in areas or not.
C3_PoppedIsMaxLeaf ==
    AboutToPop =>
        \A p \in Leaves(tree) : tree[areas[Len(areas)]].detail >= tree[p].detail

\* C3 (amended): the node an iteration is about to pop has a detail greater
\* than or equal to that of every other node held in areas.
C3_PoppedIsMaxOfAreas ==
    AboutToPop =>
        \A k \in 1..Len(areas) : tree[areas[Len(areas)]].detail >= tree[areas[k]].detail

\* An iteration is about to pop from a list that holds nodes of different
\* details.
C3_Witness ==
    /\ AboutToPop
    /\ \E k \in 1..Len(areas) : tree[areas[k]].detail < tree[areas[Len(areas)]].detail

(***************************************************************************)
(* C4                                                                      *)
(***************************************************************************)
\* C4: every pixel of the root lies in exactly one leaf rectangle, no leaf
\* extends outside the root, and every child has a width and a height of at
\* least 1.
C4_LeavesTileRoot ==
    /\ \A q \in Positions(image.width, image.height) :
          Cardinality({ p \in Leaves(tree) : Covers(tree[p], q) }) = 1
    /\ \A p \in Leaves(tree) :
          /\ tree[p].position[1] >= 0
          /\ tree[p].position[2] >= 0
          /\ tree[p].position[1] + tree[p].size[1] <= image.width
          /\ tree[p].position[2] + tree[p].size[2] <= image.height
    /\ \A p \in DOMAIN tree \ {Root} : tree[p].size[1] >= 1 /\ tree[p].size[2] >= 1

\* A root of odd width and odd height and one of its children are
\* subdivided.
C4_Witness ==
    /\ tree[Root].size = <<3, 3>>
    /\ \E p \in DOMAIN tree : p # Root /\ tree[p].is_subdivided

(***************************************************************************)
(* C5                                                                      *)
(***************************************************************************)
\* C5: no step increases the error between the drawing and the source.
C5_ErrorNeverIncreases ==
    [][SumAbsError(tree') <= SumAbsError(tree)]_vars

\* C5 (amended): an iteration of add_detail whose new children have at most
\* two pixels each, or that creates no child, does not increase the error.
C5_ErrorOfSmallChildren ==
    [][(StepTaken /\ \A p \in NewNodes : tree'[p].size[1] * tree'[p].size[2] <= 2)
         => SumAbsError(tree') <= SumAbsError(tree)]_vars

\* A node has been split into children of at most two pixels, one of them
\* of two pixels that differ.
C5_Witness ==
    \E p \in DOMAIN tree :
        /\ tree[p].is_subdivided
        /\ \A k \in 1..4 : tree[Append(p, k)].size[1] * tree[Append(p, k)].size[2] <= 2
        /\ \E k \in 1..4 : tree[Append(p, k)].detail > 0

(***************************************************************************)
(* C6                                                                      *)
(***************************************************************************)
\* C6: an iteration inserts only children it has created whose detail is
\* strictly above the threshold of the call; a leaf that is not in areas is
\* never inserted and stays a leaf; the root is in areas after construction;
\* an iteration on a fresh reducible root with an infinite threshold, or
\* with threshold 0 on a root of detail 0, subdivides it and leaves areas
\* empty; and once areas is empty neither it nor the tree changes.
C6_ThresholdPruning ==
    /\ [][StepTaken =>
            \A p \in AreaSet(areas') \ AreaSet(areas) :
                /\ p \in NewNodes
                /\ tree'[p].detail > detail_error_threshold]_vars
    /\ [][\A p \in Leaves(tree) \ AreaSet(areas) :
                p \notin AreaSet(areas') /\ p \in Leaves(tree')]_vars
    /\ [](DOMAIN tree = {Root} /\ tree[Root].image_data # None => areas = <<Root>>)
    /\ [][(/\ StepTaken
           /\ DOMAIN tree = {Root}
           /\ ~Irreducible(tree[Root])
           /\ \/ detail_error_threshold = PosInf
              \/ detail_error_threshold = 0 /\ tree[Root].detail = 0)
          => /\ tree'[Root].is_subdivided
             /\ Cardinality(DOMAIN tree') = 5
             /\ areas' = <<>>]_vars
    /\ [][areas = <<>> => tree' = tree /\ areas' = areas]_vars

\* The root has been subdivided once by a call with an infinite threshold,
\* areas is empty, and a later call is running.
C6_Witness ==
    /\ Cardinality(DOMAIN tree) = 5
    /\ areas = <<>>
    /\ pc = "add_detail"
    /\ detail_error_threshold # PosInf
    /\ max_iterations > 0
    /\ \E p \in Leaves(tree) :
          tree[p].detail > 100 * FixedPoint /\ tree[p].image_data # None

(***************************************************************************)
(* C7                                                                      *)
(***************************************************************************)
\* C7: no node of width or height at most 1 is ever subdivided; an iteration
\* that pops such a node creates no node, leaves it a leaf, counts as a
\* step, and removes it from areas without inserting anything.
C7_Irreducible ==
    /\ [](\A p \in DOMAIN tree : tree[p].is_subdivided => ~Irreducible(tree[p]))
    /\ [][(StepTaken /\ Irreducible(tree[areas[Len(areas)]]))
          => /\ NewNodes = {}
             /\ ~tree'[areas[Len(areas)]].is_subdivided
             /\ i' = i + 1
             /\ areas' = SubSeq(areas, 1, Len(areas) - 1)
             /\ areas[Len(areas)] \notin AreaSet(areas')]_vars

\* A child that cannot be subdivided has been popped: it is a leaf without
\* its pixel view and is not in areas.
C7_Witness ==
    \E p \in Leaves(tree) :
        /\ p # Root
        /\ Irreducible(tree[p])
        /\ tree[p].image_data = None
        /\ p \notin AreaSet(areas)

(***************************************************************************)
(* C8                                                                      *)
(***************************************************************************)
\* The stream ends before the 8 header bytes, the 4 bytes of the flag count,
\* the flag bytes that count asks for, or the 3 bytes of every false flag.
Truncated(data) ==
    LET count == DecodeUint32(ReadBytes(data, 8, 4))
        flags == DecodeBitset(data, 8).boolean_flags
    IN  \/ Len(data) < 8
        \/ Len(data) < 12
        \/ Len(data) < 12 + ByteCount(count)
        \/ Len(data) < 12 + ByteCount(count) + 3 * ColorCount(flags)

\* C8: decoding a stream that ends early fails with an error.
C8_TruncatedBlobRejected ==
    (decoded # None /\ Truncated(LzmaDecompress(blob))) => decoded.status = "error"

(***************************************************************************)
(* C9                                                                      *)
(***************************************************************************)
\* C9: a reconstruction that raises no error yields a tree whose internal
\* nodes have four children and whose leaves all have a colour, so that
\* every pixel of the rectangle is painted by a leaf.  Stated for the
\* rectangles of at least one pixel, so that it does not rest on C10.
C9_DecodeAllOrError ==
    (recon # None /\ recon.status = "ok" /\ recon.width >= 1 /\ recon.height >= 1) =>
        /\ \A p \in DOMAIN recon.tree :
              IF recon.tree[p].is_subdivided
              THEN \A k \in 1..4 : Append(p, k) \in DOMAIN recon.tree
              ELSE recon.tree[p].color # None
        /\ \A q \in Positions(recon.width, recon.height) :
              \E p \in Leaves(recon.tree) :
                  Covers(recon.tree[p], q) /\ recon.tree[p].color # None

(***************************************************************************)
(* C10                                                                     *)
(***************************************************************************)
\* C10: no compressor and no reconstructed tree has a root rectangle of
\* width or height zero.
C10_NoZeroSizedRoot ==
    /\ tree[Root].size[1] >= 1
    /\ tree[Root].size[2] >= 1
    /\ (recon # None /\ recon.status = "ok")
          => recon.tree[Root].size[1] >= 1 /\ recon.tree[Root].size[2] >= 1

\* ceil(n / 8), by its definition: the least k with 8 * k >= n.
CeilDiv8(n) == CHOOSE k \in 0..n : 8 * k >= n /\ (k = 0 \/ 8 * (k - 1) < n)

\* Bit number bit_index of the byte, counted from the least significant.
BitOf(byte, bit_index) == (byte \div (2 ^ bit_index)) % 2

Before(p, q) ==
    \/ Len(p) < Len(q) /\ SubSeq(q, 1, Len(p)) = p
    \/ \E k \in 1..Min(Len(p), Len(q)) :
          /\ SubSeq(p, 1, k - 1) = SubSeq(q, 1, k - 1)
          /\ p[k] < q[k]

\* The paths of S in pre-order.
PreOrder(S) ==
    [k \in 1..Cardinality(S) |->
        CHOOSE p \in S : Cardinality({ q \in S : Before(q, p) }) = k - 1]

CountOf(list, value) == Cardinality({ k \in 1..Len(list) : list[k] = value })

\* C12: extract_data emits one flag per node of the tree, in pre-order with
\* the children visited bottom left, bottom right, top left, top right, and
\* one colour per leaf in that order.  So there are as many colours as
\* false flags, the number of flags is 4 * (number of true flags) + 1, a
\* root that was never subdivided gives the flags [false] and one colour,
\* and a root subdivided once gives [true, false, false, false, false] and
\* four colours.
C12_ExtractionStructure ==
    LET lists == ExtractData(tree)
        nodes == PreOrder(DOMAIN tree)
        leaves == PreOrder(Leaves(tree))
    IN  /\ lists.subdivided_flags = [k \in 1..Len(nodes) |-> tree[nodes[k]].is_subdivided]
        /\ lists.colors = [k \in 1..Len(leaves) |-> tree[leaves[k]].color]
        /\ Len(lists.colors) = CountOf(lists.subdivided_flags, FALSE)
        /\ Len(lists.subdivided_flags) = 4 * CountOf(lists.subdivided_flags, TRUE) + 1
        /\ ~tree[Root].is_subdivided =>
              lists.subdivided_flags = <<FALSE>> /\ Len(lists.colors) = 1
        /\ (tree[Root].is_subdivided /\ Cardinality(DOMAIN tree) = 5) =>
              /\ lists.subdivided_flags = <<TRUE, FALSE, FALSE, FALSE, FALSE>>
              /\ Len(lists.colors) = 4

\* The tree has been subdivided twice, its leaves do not all have the same
\* colour, and encode_to_binary has extracted its lists into a blob.
C12_Witness ==
    /\ pc = "idle"
    /\ blob # None
    /\ Cardinality(DOMAIN tree) = 9
    /\ \E p, q \in Leaves(tree) : tree[p].color # tree[q].color
    /\ LET lists == ExtractData(tree)
       IN  /\ CountOf(lists.subdivided_flags, TRUE) = 2
           /\ blob = EncodeImageData(image.width, image.height,
                                     lists.subdivided_flags, lists.colors)

\* C13: during a call add_detail(max_steps, threshold) the number i of
\* nodes popped so far never exceeds max_steps; the tree and areas change
\* only in an iteration, which pops exactly one node of a non-empty areas
\* and counts it; with areas empty, or with max_steps = 0, the next step of
\* the call is its normal return, with the tree and areas as they were.
C13_StepBound ==
    /\ [](pc = "add_detail" => i <= max_iterations)
    /\ [][(tree' # tree \/ areas' # areas) =>
            /\ StepTaken
            /\ i < max_iterations
            /\ areas # <<>>
            /\ AreaSet(areas) \ AreaSet(areas') = {areas[Len(areas)]}
            /\ Cardinality(DOMAIN tree') - Cardinality(DOMAIN tree) \in {0, 4}]_vars
    /\ [][(pc = "add_detail" /\ (areas = <<>> \/ max_iterations = 0)) =>
            (pc' = "idle" /\ tree' = tree /\ areas' = areas)]_vars

\* A call with the largest number of steps has popped that many nodes, has
\* subdivided, and areas still holds nodes.
C13_Witness ==
    /\ pc = "add_detail"
    /\ max_iterations = MaxSteps
    /\ i = max_iterations
    /\ areas # <<>>
    /\ Cardinality(DOMAIN tree) > 5

\* The path of the parent of the node at path q.
Parent(q) == SubSeq(q, 1, Len(q) - 1)

\* The part of the view that is the rectangle of the given position and
\* size, for a view that shows the rectangle of the node.
RectOfView(node, position, size) ==
    <<node.image_data[1] + (position[1] - node.position[1]),
      node.image_data[2] + (position[2] - node.position[2]),
      size[1], size[2]>>

\* C14: in every state reached by construction and add_detail, no node that
\* is subdivided holds a pixel view; the step that subdivides a node and
\* creates its children is the step that sets its view absent; and the view
\* of each new child is exactly the child's rectangle of the view its parent
\* held, inside that view.
C14_MemoryDiscipline ==
    /\ [](\A p \in DOMAIN tree : tree[p].is_subdivided => tree[p].image_data = None)
    /\ [][\A p \in DOMAIN tree :
            (~tree[p].is_subdivided /\ tree'[p].is_subdivided) =>
                /\ tree[p].image_data # None
                /\ tree'[p].image_data = None
                /\ NewNodes = { Append(p, k) : k \in 1..4 }]_vars
    /\ [][\A q \in NewNodes :
            LET parent == tree[Parent(q)]
                child == tree'[q]
            IN  /\ child.image_data = RectOfView(parent, child.position, child.size)
                /\ child.image_data[1] >= parent.image_data[1]
                /\ child.image_data[2] >= parent.image_data[2]
                /\ child.image_data[1] + child.image_data[3]
                      <= parent.image_data[1] + parent.image_data[3]
                /\ child.image_data[2] + child.image_data[4]
                      <= parent.image_data[2] + parent.image_data[4]]_vars

\* A child of the root, itself created with a view, has been subdivided:
\* two nodes are without a view and the grandchildren hold theirs.
C14_Witness ==
    /\ \E p \in DOMAIN tree :
          /\ Len(p) = 1
          /\ tree[p].is_subdivided
          /\ tree[p].image_data = None
          /\ \A k \in 1..4 : tree[Append(p, k)].image_data # None
    /\ tree[Root].image_data = None

\* C15: a call of draw(), extract_data() or encode_to_binary(), made between
\* calls of add_detail, leaves the source image, every node of the tree and
\* the contents of areas as they were; so whatever calls of them came
\* before, the buffer draw() returned shows each pixel in the colour of the
\* leaf of the current tree that covers it, and the blob encode_to_binary()
\* returned is the encoding of the lists of the current tree.
C15_ReadOnlyConsumers ==
    /\ [][(pc = "idle" /\ pc' = "idle") =>
            (image' = image /\ tree' = tree /\ areas' = areas)]_vars
    /\ [](drawn # None =>
            /\ DOMAIN drawn = Positions(image.width, image.height)
            /\ \A q \in DOMAIN drawn : \A p \in Leaves(tree) :
                  Covers(tree[p], q) => drawn[q] = tree[p].color)
    /\ [](blob # None =>
            LET lists == ExtractData(tree)
            IN  blob = EncodeImageData(image.width, image.height,
                                       lists.subdivided_flags, lists.colors))

\* Between two calls of add_detail, with nodes left in areas, the subdivided
\* tree has been drawn and encoded.
C15_Witness ==
    /\ pc = "idle"
    /\ drawn # None
    /\ blob # None
    /\ tree[Root].is_subdivided
    /\ Len(areas) >= 2

\* The number of nodes of the quadtree that subdivide() makes of a rectangle
\* of the given size when every node that can be split is split.
RECURSIVE FullTreeNodes(_)
FullTreeNodes(size) ==
    IF size[1] <= 1 \/ size[2] <= 1 THEN 1
    ELSE LET rects == ChildRects(<<0, 0>>, size)
         IN  1 + FullTreeNodes(rects[1][2]) + FullTreeNodes(rects[2][2])
               + FullTreeNodes(rects[3][2]) + FullTreeNodes(rects[4][2])

\* The nodes that have been popped from areas: subdivide() has run on them.
Popped(t) == { p \in DOMAIN t : t[p].image_data = None }

\* The number of pops that emptying the list can still take: the nodes of
\* the full quadtrees below the nodes it holds.
RECURSIVE PopsLeft(_, _)
PopsLeft(list, t) ==
    IF list = <<>> THEN 0
    ELSE FullTreeNodes(t[Head(list)].size) + PopsLeft(Tail(list), t)

Pixels(node) == node.size[1] * node.size[2]

\* C16: a node that was popped from areas is never in areas again; a node
\* inserted into areas is a new child of the node just popped, with a
\* rectangle of fewer pixels; every iteration lowers the number of pops
\* that areas can still take, which no step raises and which starts at the
\* number of nodes of the fully subdivided quadtree of the image, so the
\* nodes popped in the whole session are at most that many and repeated
\* iterations empty areas; and once areas is empty it stays empty and the
\* tree does not change.
C16_Exhaustion ==
    /\ [](AreaSet(areas) \cap Popped(tree) = {})
    /\ [][Popped(tree) \subseteq Popped(tree')]_vars
    /\ [][StepTaken =>
            /\ Popped(tree') = Popped(tree) \cup {areas[Len(areas)]}
            /\ PopsLeft(areas', tree') < PopsLeft(areas, tree)]_vars
    /\ [][AreaSet(areas') \ AreaSet(areas) # {} => StepTaken]_vars
    /\ [][\A q \in AreaSet(areas') \ AreaSet(areas) :
            /\ q \in NewNodes
            /\ Parent(q) = areas[Len(areas)]
            /\ Pixels(tree'[q]) < Pixels(tree[Parent(q)])]_vars
    /\ [][PopsLeft(areas', tree') <= PopsLeft(areas, tree)]_vars
    /\ [](Cardinality(Popped(tree)) + PopsLeft(areas, tree)
            <= FullTreeNodes(<<image.width, image.height>>))
    /\ [][areas = <<>> => (areas' = <<>> /\ tree' = tree)]_vars

\* Every node of a tree two levels deep has been popped, in several calls
\* of add_detail, and areas is empty.
C16_Witness ==
    /\ pc = "idle"
    /\ areas = <<>>
    /\ Cardinality(DOMAIN tree) = 9
    /\ Popped(tree) = DOMAIN tree

====
